---- MODULE Spec2Model ----
(***************************************************************************)
(* Model of rpi-bmark's src/main.rs: the per-core entry point (start), the *)
(* benchmark's report, the exception entry (fault), the panic handler      *)
(* (panic), the frame-pointer stack walk (backtrace) and halt, running on  *)
(* several cores that share one UART behind a spin lock.                   *)
(*                                                                         *)
(* Each core is a process with a program counter pc[c].  The lock and the  *)
(* UART live in sync.rs / uart.rs, which are not part of the sources; they *)
(* are modelled from the specification (Acquire, Release, Emit, debug).    *)
(* Every chunk of the output stream records, besides its text, the core    *)
(* that wrote it and the call site of the write.                           *)
(***************************************************************************)
EXTENDS Integers, Sequences, FiniteSets, TLC

(* ------------------------------ bounds --------------------------------- *)

\* longest frame-pointer chain found on a core's stack
MaxFrames == 2

\* hardware exceptions and application panics injected in one run
MaxFatal == 1

(* --------------------------- program constants ------------------------- *)

CPU_COUNT == 4

\* the cores of the model: two of the machine's CPU_COUNT
Cores == {0, 1}

\* fault-kind discriminants handed over by the trap vector
Kinds == {1, 10}

\* the values CurrentEL can hold: the exception level in bits 3:2
CurrentELs == {0, 4, 8, 12}

EL2Regs == <<"esr_el2", "far_el2", "elr_el2", "spsr_el2">>
EL1Regs == <<"esr_el1", "far_el1", "elr_el1", "spsr_el1">>

\* contents of the fault registers (hardware state, fixed for a run)
SysReg(r) ==
    CASE r = "esr_el2"  -> 150
      [] r = "far_el2"  -> 4096
      [] r = "elr_el2"  -> 524572
      [] r = "spsr_el2" -> 969
      [] r = "esr_el1"  -> 37
      [] r = "far_el1"  -> 48
      [] r = "elr_el1"  -> 524800
      [] r = "spsr_el1" -> 965

File == "src/main.rs"

(* ------------------------------ formatting ----------------------------- *)
\* core::fmt renders integers digit by digit; a text is a sequence of string
\* pieces, each digit being one piece.

DecDigits == <<"0", "1", "2", "3", "4", "5", "6", "7", "8", "9">>
LowerHexDigits == DecDigits \o <<"a", "b", "c", "d", "e", "f">>
UpperHexDigits == DecDigits \o <<"A", "B", "C", "D", "E", "F">>

RECURSIVE Radix(_, _, _)
Radix(n, base, digits) ==
    IF n < base THEN << digits[n + 1] >>
    ELSE Radix(n \div base, base, digits) \o << digits[(n % base) + 1] >>

\* {n}
Display(n) == Radix(n, 10, DecDigits)
\* {n:x}
LowerHex(n) == Radix(n, 16, LowerHexDigits)
\* {n:X}
UpperHex(n) == Radix(n, 16, UpperHexDigits)
\* {n:03}
RECURSIVE ZeroPad(_, _)
ZeroPad(t, width) == IF Len(t) >= width THEN t ELSE ZeroPad(<<"0">> \o t, width)

(* ------------------------------- state --------------------------------- *)

VARIABLES
    pc,       \* pc[c]: where core c is in the program
    locked,   \* the flag of the lock around UART
    holds,    \* holds[c]: a guard of UART is alive on core c's stack
    out,      \* the bytes sent to the UART so far, one chunk per write
    info,     \* info[c]: the PanicInfo handed to core c's panic handler, <<>> if none
    mrs,      \* mrs[c]: the fault registers the last fault() on core c read
    fp,       \* backtrace's fp on core c
    lr,       \* backtrace's lr on core c
    frame,    \* backtrace's frame counter on core c
    loads,    \* loads[c]: addresses backtrace loaded from on core c
    mem,      \* stack memory: the saved (fp, lr) pairs
    mpidr,    \* mpidr[c]: raw MPIDR_EL1 of core c
    daif,     \* daif[c]: IRQ and FIQ masked on core c
    currentel,\* CurrentEL, the same on every core
    nfatal    \* exceptions and application panics raised so far

vars == <<pc, locked, holds, out, info, mrs, fp, lr, frame, loads, mem, mpidr,
          daif, currentel, nfatal>>

(* ------------------------------- memory -------------------------------- *)
\* Core c's stack holds a chain of MaxFrames frame records; record k sits at
\* FrameAddr(c, k), its first word is the caller's frame pointer (record
\* k - 1, null for the outermost), its second word the return address.

FrameAddr(c, k) == IF k = 0 THEN 0 ELSE (c + 1) * 4096 + 16 * k

ReturnAddr(c, k) == 524288 + 256 * c + 4 * k

StackWords ==
    UNION { {FrameAddr(c, k), FrameAddr(c, k) + 8} : c \in Cores, k \in 1 .. MaxFrames }

InitMem ==
    [a \in StackWords |->
        LET c == CHOOSE d \in Cores : \E k \in 1 .. MaxFrames :
                     a \in {FrameAddr(d, k), FrameAddr(d, k) + 8}
            k == CHOOSE j \in 1 .. MaxFrames :
                     a \in {FrameAddr(c, j), FrameAddr(c, j) + 8}
        IN  IF a = FrameAddr(c, k) THEN FrameAddr(c, k - 1) ELSE ReturnAddr(c, k)]

(* ------------------------------- cpu_id -------------------------------- *)

\* the and instruction: bit i of the result is set when bit i of both
\* operands is
RECURSIVE And(_, _)
And(a, b) ==
    IF a = 0 \/ b = 0 THEN 0
    ELSE (a % 2) * (b % 2) + 2 * And(a \div 2, b \div 2)

\* (variant: the affinity register is returned as read, not masked)
cpu_id_unmasked(c) == mpidr[c]

\* (variant: the mask keeps the low four bits only)
cpu_id_nibble(c) == And(mpidr[c], 15)

\* mrs id, mpidr_el1 ; and id, id, #0xff
cpu_id(c) == And(mpidr[c], 255)

(* --------------------------- UART and its lock ------------------------- *)

\* UART.lock(): spins until the flag is clear, then sets it
Acquire(c) ==
    /\ ~locked
    /\ locked' = TRUE
    /\ holds' = [holds EXCEPT ![c] = TRUE]

\* the guard is dropped
Release(c) ==
    /\ locked' = FALSE
    /\ holds' = [holds EXCEPT ![c] = FALSE]

\* one write through the sink
Emit(c, site, text) ==
    out' = Append(out, [core |-> c, site |-> site, text |-> text])

(* ------------------------------ PanicInfo ------------------------------ *)
\* An Option is a sequence of length 0 (None) or 1 (Some).

None == <<>>
Some(x) == <<x>>

PanicInfo(loc, msg) == [loc |-> loc, msg |-> msg]

Location(line) == Some([file |-> File, line |-> line])

\* Result::unwrap() on an Err
UnwrapMessage == <<"called Result::unwrap() on an Err value: ", "Error">>

\* a failed write: .unwrap() panics at its call site; the panic handler never
\* returns and nothing unwinds, so the locals of the interrupted function
\* (a live guard among them) stay where they are
Unwrap(c, line) ==
    /\ info' = [info EXCEPT ![c] = Some(PanicInfo(Location(line), Some(UnwrapMessage)))]
    /\ pc' = [pc EXCEPT ![c] = "panic_lock"]

(* -------------------------------- debug! ------------------------------- *)
\* debug!(...) takes the UART, writes one line and lets the UART go.

debug_lock(c, at, next) ==
    /\ pc[c] = at
    /\ Acquire(c)
    /\ pc' = [pc EXCEPT ![c] = next]
    /\ UNCHANGED <<out, info, mrs, fp, lr, frame, loads, mem, mpidr, daif, currentel, nfatal>>

debug_write(c, at, next, site, text) ==
    /\ pc[c] = at
    /\ Emit(c, site, text \o <<"\n">>)
    /\ Release(c)
    /\ pc' = [pc EXCEPT ![c] = next]
    /\ UNCHANGED <<info, mrs, fp, lr, frame, loads, mem, mpidr, daif, currentel, nfatal>>

(* -------------------------------- start -------------------------------- *)

BootedLine(id) == <<"Booted core #">> \o Display(id)

StartLock(c) == debug_lock(c, "start_lock", "start_write")

StartWrite(c) == debug_write(c, "start_write", "bench", "booted", BootedLine(cpu_id(c)))

(* -------------------------------- bench -------------------------------- *)

\* the counter readings are those of one run
BenchLine(id) ==
    LET start == 1000
        end == 1000 + 130500000
        freq == 54000000
        diff == end - start
        secs == diff \div freq
        msecs == (diff \div (freq \div 1000)) % 1000
    IN  <<"Core #">> \o Display(id) \o <<" wrote 8GB in ">> \o Display(secs)
            \o <<".">> \o ZeroPad(Display(msecs), 3) \o <<" secs">>

\* the timed loops are over and bench reports: debug!("Core #{core} wrote ...")
BenchLock(c) == debug_lock(c, "bench", "bench_write")

BenchWrite(c) == debug_write(c, "bench_write", "halt_lock", "bench", BenchLine(cpu_id(c)))

(* -------------------------------- fault -------------------------------- *)

\* (variant: the arms of the match read each other's registers)
FaultRegsSwapped(level) ==
    IF level = 2 THEN EL1Regs
    ELSE IF level = 1 THEN EL2Regs
    ELSE <<>>

\* the registers the match on level reads, in the order of the asm block
FaultRegs(level) ==
    IF level = 2 THEN EL2Regs
    ELSE IF level = 1 THEN EL1Regs
    ELSE <<>>

ExceptionMessage(core, level, kind, syndrome, addr, ret, state) ==
    <<"Core #">> \o Display(core)
        \o <<" triggered an exception at level ">> \o Display(level)
        \o <<": Kind: 0x">> \o LowerHex(kind)
        \o <<", Syndrome: 0x">> \o LowerHex(syndrome)
        \o <<", Address: 0x">> \o LowerHex(addr)
        \o <<", Location: 0x">> \o LowerHex(ret)
        \o <<", State: 0x">> \o LowerHex(state)

UnsupportedMessage(level) ==
    <<"Exception caught at unsupported level ">> \o Display(level)

\* the PanicInfo of the panic! that ends fault
FaultPanic(core, level, kind) ==
    LET regs == FaultRegs(level)
    IN  IF level \in {1, 2}
        THEN PanicInfo(Location(139),
                       Some(ExceptionMessage(core, level, kind,
                                             SysReg(regs[1]), SysReg(regs[2]),
                                             SysReg(regs[3]), SysReg(regs[4]))))
        ELSE PanicInfo(Location(136), Some(UnsupportedMessage(level)))

\* (variant: fault reports and returns to the interrupted code)
fault_returns(c, kind) ==
    /\ pc[c] # "halted"
    /\ nfatal < MaxFatal
    /\ LET level == currentel \div 4
       IN
         /\ mrs' = [mrs EXCEPT ![c] = { FaultRegs(level)[i] : i \in 1 .. Len(FaultRegs(level)) }]
         /\ info' = [info EXCEPT ![c] = Some(FaultPanic(cpu_id(c), level, kind))]
    /\ nfatal' = nfatal + 1
    /\ UNCHANGED <<pc, locked, holds, out, fp, lr, frame, loads, mem, mpidr, daif, currentel>>

\* The trap vector calls fault(kind) wherever the core was executing; only a
\* parked core (interrupts masked, waiting in wfi) takes no exception.
fault(c, kind) ==
    /\ pc[c] # "halted"
    /\ nfatal < MaxFatal
    /\ LET level == currentel \div 4    \* mrs el, currentel ; lsr el, el, #2
       IN
         /\ mrs' = [mrs EXCEPT ![c] = { FaultRegs(level)[i] : i \in 1 .. Len(FaultRegs(level)) }]
         /\ info' = [info EXCEPT ![c] = Some(FaultPanic(cpu_id(c), level, kind))]
    /\ pc' = [pc EXCEPT ![c] = "panic_lock"]
    /\ nfatal' = nfatal + 1
    /\ UNCHANGED <<locked, holds, out, fp, lr, frame, loads, mem, mpidr, daif, currentel>>

\* An unrecoverable condition in the running benchmark (its arithmetic is
\* checked) enters the panic handler with a PanicInfo whose location and
\* message are both optional.
RaisePanic(c, hasLoc, hasMsg) ==
    /\ pc[c] = "bench"
    /\ nfatal < MaxFatal
    /\ info' = [info EXCEPT ![c] =
                  Some(PanicInfo(IF hasLoc THEN Location(93) ELSE None,
                                 IF hasMsg THEN Some(<<"attempt to divide by zero">>)
                                 ELSE None))]
    /\ pc' = [pc EXCEPT ![c] = "panic_lock"]
    /\ nfatal' = nfatal + 1
    /\ UNCHANGED <<locked, holds, out, mrs, fp, lr, frame, loads, mem, mpidr, daif, currentel>>

(* -------------------------------- panic -------------------------------- *)

\* (variant: the two prefixes are exchanged)
PanicPrefixSwapped(affinity, loc) ==
    IF loc = None
    THEN <<"Core #">> \o Display(affinity) \o <<" panicked at ", File, ":">>
            \o Display(0) \o <<": ">>
    ELSE <<"Core #">> \o Display(affinity) \o <<" panic: ">>

PanicPrefix(affinity, loc) ==
    IF loc # None
    THEN <<"Core #">> \o Display(affinity) \o <<" panicked at ", loc[1].file, ":">>
            \o Display(loc[1].line) \o <<": ">>
    ELSE <<"Core #">> \o Display(affinity) \o <<" panic: ">>

PanicReason(msg) == IF msg # None THEN msg[1] ELSE <<"Unknown reason">>

\* let mut uart = UART.lock();
panic_lock(c) ==
    /\ pc[c] = "panic_lock"
    /\ Acquire(c)
    /\ pc' = [pc EXCEPT ![c] = "panic_prefix"]
    /\ UNCHANGED <<out, info, mrs, fp, lr, frame, loads, mem, mpidr, daif, currentel, nfatal>>

\* write!(uart, "Core #{affinity} ...").unwrap()
panic_prefix(c, oks) ==
    /\ pc[c] = "panic_prefix"
    /\ \E ok \in oks :
         IF ok
         THEN /\ Emit(c, "prefix", PanicPrefix(cpu_id(c), info[c][1].loc))
              /\ pc' = [pc EXCEPT ![c] = "panic_message"]
              /\ UNCHANGED info
         ELSE /\ Unwrap(c, IF info[c][1].loc # None THEN 167 ELSE 169)
              /\ UNCHANGED out
    /\ UNCHANGED <<locked, holds, mrs, fp, lr, frame, loads, mem, mpidr, daif, currentel, nfatal>>

\* uart.write_fmt(*args).unwrap()  or  uart.write_str("Unknown reason").unwrap()
panic_message(c, oks) ==
    /\ pc[c] = "panic_message"
    /\ \E ok \in oks :
         IF ok
         THEN /\ Emit(c, "message", PanicReason(info[c][1].msg))
              /\ pc' = [pc EXCEPT ![c] = "panic_newline"]
              /\ UNCHANGED info
         ELSE /\ Unwrap(c, IF info[c][1].msg # None THEN 172 ELSE 174)
              /\ UNCHANGED out
    /\ UNCHANGED <<locked, holds, mrs, fp, lr, frame, loads, mem, mpidr, daif, currentel, nfatal>>

\* uart.write_char('\n').unwrap()
panic_newline(c, oks) ==
    /\ pc[c] = "panic_newline"
    /\ \E ok \in oks :
         IF ok
         THEN /\ Emit(c, "newline", <<"\n">>)
              /\ pc' = [pc EXCEPT ![c] = "panic_drop"]
              /\ UNCHANGED info
         ELSE /\ Unwrap(c, 176)
              /\ UNCHANGED out
    /\ UNCHANGED <<locked, holds, mrs, fp, lr, frame, loads, mem, mpidr, daif, currentel, nfatal>>

\* (variant: the guard is still alive when backtrace() is called)
panic_drop_kept(c) ==
    /\ pc[c] = "panic_drop"
    /\ pc' = [pc EXCEPT ![c] = "backtrace_lock"]
    /\ UNCHANGED <<locked, holds, out, info, mrs, fp, lr, frame, loads, mem, mpidr,
                   daif, currentel, nfatal>>

\* drop(uart); then backtrace() is called
panic_drop(c) ==
    /\ pc[c] = "panic_drop"
    /\ Release(c)
    /\ pc' = [pc EXCEPT ![c] = "backtrace_lock"]
    /\ UNCHANGED <<out, info, mrs, fp, lr, frame, loads, mem, mpidr, daif, currentel, nfatal>>

(* ------------------------------ backtrace ------------------------------ *)

\* the link register at the entry of backtrace: a return address into panic
LinkReg(c) == 524288 + 256 * c

\* (variant: the frames are counted from one)
FrameLineFromOne(n, addr) ==
    <<"#">> \o Display(n + 1) \o <<": 0x">> \o UpperHex(addr) \o <<"\n">>

FrameLine(n, addr) ==
    <<"#">> \o Display(n) \o <<": 0x">> \o UpperHex(addr) \o <<"\n">>

\* (variant: backtrace goes on without taking the UART)
backtrace_lock_unlocked(c) ==
    /\ pc[c] = "backtrace_lock"
    /\ pc' = [pc EXCEPT ![c] = "backtrace_header"]
    /\ UNCHANGED <<locked, holds, out, info, mrs, fp, lr, frame, loads, mem, mpidr,
                   daif, currentel, nfatal>>

\* let mut uart = UART.lock();
backtrace_lock(c) ==
    /\ pc[c] = "backtrace_lock"
    /\ Acquire(c)
    /\ pc' = [pc EXCEPT ![c] = "backtrace_header"]
    /\ UNCHANGED <<out, info, mrs, fp, lr, frame, loads, mem, mpidr, daif, currentel, nfatal>>

\* mov fp, fp ; mov lr, lr ; frame = 0 ; writeln!(uart, "Backtrace:").unwrap()
\* The frame pointer found at entry heads a chain of k records.
backtrace_header(c, k, oks) ==
    /\ pc[c] = "backtrace_header"
    /\ fp' = [fp EXCEPT ![c] = FrameAddr(c, k)]
    /\ lr' = [lr EXCEPT ![c] = LinkReg(c)]
    /\ frame' = [frame EXCEPT ![c] = 0]
    /\ loads' = [loads EXCEPT ![c] = <<>>]
    /\ \E ok \in oks :
         IF ok
         THEN /\ Emit(c, "header", <<"Backtrace:", "\n">>)
              /\ pc' = [pc EXCEPT ![c] = "backtrace_loop"]
              /\ UNCHANGED info
         ELSE /\ Unwrap(c, 207)
              /\ UNCHANGED out
    /\ UNCHANGED <<locked, holds, mrs, mem, mpidr, daif, currentel, nfatal>>

\* (variant: the pair is loaded before the line is written)
backtrace_frame_load_first(c, oks) ==
    /\ pc[c] = "backtrace_loop"
    /\ fp[c] # 0
    /\ \E ok \in oks :
         IF ok
         THEN /\ Emit(c, "frame", FrameLine(frame[c], mem[fp[c] + 8]))
              /\ fp' = [fp EXCEPT ![c] = mem[fp[c]]]
              /\ lr' = [lr EXCEPT ![c] = mem[fp[c] + 8]]
              /\ loads' = [loads EXCEPT ![c] = loads[c] \o <<fp[c], fp[c] + 8>>]
              /\ frame' = [frame EXCEPT ![c] = frame[c] + 1]
              /\ UNCHANGED <<pc, info>>
         ELSE /\ Unwrap(c, 209)
              /\ UNCHANGED <<out, fp, lr, loads, frame>>
    /\ UNCHANGED <<locked, holds, mrs, mem, mpidr, daif, currentel, nfatal>>

\* (variant: the guard is dropped after each line)
backtrace_frame_released(c, oks) ==
    /\ pc[c] = "backtrace_loop"
    /\ fp[c] # 0
    /\ \E ok \in oks :
         IF ok
         THEN /\ Emit(c, "frame", FrameLine(frame[c], lr[c]))
              /\ Release(c)
              /\ fp' = [fp EXCEPT ![c] = mem[fp[c]]]
              /\ lr' = [lr EXCEPT ![c] = mem[fp[c] + 8]]
              /\ loads' = [loads EXCEPT ![c] = loads[c] \o <<fp[c], fp[c] + 8>>]
              /\ frame' = [frame EXCEPT ![c] = frame[c] + 1]
              /\ UNCHANGED <<pc, info>>
         ELSE /\ Unwrap(c, 209)
              /\ UNCHANGED <<out, fp, lr, loads, frame, locked, holds>>
    /\ UNCHANGED <<mrs, mem, mpidr, daif, currentel, nfatal>>

\* one turn of the loop: writeln!(uart, "#{frame}: 0x{lr:X}").unwrap();
\* ldp fp, lr, [fp] ; frame += 1
backtrace_frame(c, oks) ==
    /\ pc[c] = "backtrace_loop"
    /\ fp[c] # 0
    /\ \E ok \in oks :
         IF ok
         THEN /\ Emit(c, "frame", FrameLine(frame[c], lr[c]))
              /\ fp' = [fp EXCEPT ![c] = mem[fp[c]]]
              /\ lr' = [lr EXCEPT ![c] = mem[fp[c] + 8]]
              /\ loads' = [loads EXCEPT ![c] = loads[c] \o <<fp[c], fp[c] + 8>>]
              /\ frame' = [frame EXCEPT ![c] = frame[c] + 1]
              /\ UNCHANGED <<pc, info>>
         ELSE /\ Unwrap(c, 209)
              /\ UNCHANGED <<out, fp, lr, loads, frame>>
    /\ UNCHANGED <<locked, holds, mrs, mem, mpidr, daif, currentel, nfatal>>

\* (variant: the walk has a depth limit of one frame)
backtrace_return_limited(c) ==
    /\ pc[c] = "backtrace_loop"
    /\ (fp[c] = 0 \/ frame[c] >= 1)
    /\ Release(c)
    /\ pc' = [pc EXCEPT ![c] = "halt_lock"]
    /\ UNCHANGED <<out, info, mrs, fp, lr, frame, loads, mem, mpidr, daif, currentel, nfatal>>

\* fp == 0: the loop ends, backtrace returns (its guard goes out of scope)
\* and panic calls halt()
backtrace_return(c) ==
    /\ pc[c] = "backtrace_loop"
    /\ fp[c] = 0
    /\ Release(c)
    /\ pc' = [pc EXCEPT ![c] = "halt_lock"]
    /\ UNCHANGED <<out, info, mrs, fp, lr, frame, loads, mem, mpidr, daif, currentel, nfatal>>

(* --------------------------------- halt -------------------------------- *)

HaltedLine(id) == <<"Halted core #">> \o Display(id)

\* (variant: the interrupts are masked before the line is written)
HaltLockMasked(c) ==
    /\ pc[c] = "halt_lock"
    /\ Acquire(c)
    /\ daif' = [daif EXCEPT ![c] = TRUE]
    /\ pc' = [pc EXCEPT ![c] = "halt_write"]
    /\ UNCHANGED <<out, info, mrs, fp, lr, frame, loads, mem, mpidr, currentel, nfatal>>

HaltLock(c) == debug_lock(c, "halt_lock", "halt_write")

HaltWrite(c) == debug_write(c, "halt_write", "halt_mask", "halted", HaltedLine(cpu_id(c)))

\* (variant: halt returns, and the core goes back to the benchmark)
halt_mask_returns(c) ==
    /\ pc[c] = "halt_mask"
    /\ daif' = [daif EXCEPT ![c] = TRUE]
    /\ pc' = [pc EXCEPT ![c] = "bench"]
    /\ UNCHANGED <<locked, holds, out, info, mrs, fp, lr, frame, loads, mem, mpidr, currentel, nfatal>>

\* msr daifset, #0x3 and entry into the wait loop
halt_mask(c) ==
    /\ pc[c] = "halt_mask"
    /\ daif' = [daif EXCEPT ![c] = TRUE]
    /\ pc' = [pc EXCEPT ![c] = "halted"]
    /\ UNCHANGED <<locked, holds, out, info, mrs, fp, lr, frame, loads, mem, mpidr, currentel, nfatal>>

\* (variant: the wait is not a loop, the core runs on past it)
halt_wfi_exits(c) ==
    /\ pc[c] = "halted"
    /\ pc' = [pc EXCEPT ![c] = "returned"]
    /\ UNCHANGED <<locked, holds, out, info, mrs, fp, lr, frame, loads, mem, mpidr,
                   daif, currentel, nfatal>>

\* 0: wfi ; b 0b
halt_wfi(c) ==
    /\ pc[c] = "halted"
    /\ pc' = [pc EXCEPT ![c] = "halted"]
    /\ UNCHANGED <<locked, holds, out, info, mrs, fp, lr, frame, loads, mem, mpidr,
                   daif, currentel, nfatal>>

(* ----------------------------- specification --------------------------- *)

\* the state after reset, CurrentEL and the affinity registers left open
Reset ==
    /\ pc = [c \in Cores |-> "start_lock"]
    /\ locked = FALSE
    /\ holds = [c \in Cores |-> FALSE]
    /\ out = <<>>
    /\ info = [c \in Cores |-> None]
    /\ mrs = [c \in Cores |-> {}]
    /\ fp = [c \in Cores |-> 0]
    /\ lr = [c \in Cores |-> 0]
    /\ frame = [c \in Cores |-> 0]
    /\ loads = [c \in Cores |-> <<>>]
    /\ mem = InitMem
    /\ daif = [c \in Cores |-> FALSE]
    /\ nfatal = 0

\* the steps of core c, with exceptions of the given kinds, application
\* panics of the given shapes, stacks of the given depths and writes to the
\* UART of the given outcomes (TRUE: Ok, FALSE: Err)
Step(c, kinds, shapes, depths, oks) ==
    \/ StartLock(c)
    \/ StartWrite(c)
    \/ BenchLock(c)
    \/ BenchWrite(c)
    \/ \E kind \in kinds : fault(c, kind)
    \/ \E shape \in shapes : RaisePanic(c, shape[1], shape[2])
    \/ panic_lock(c)
    \/ panic_prefix(c, oks)
    \/ panic_message(c, oks)
    \/ panic_newline(c, oks)
    \/ panic_drop(c)
    \/ backtrace_lock(c)
    \/ \E k \in depths : backtrace_header(c, k, oks)
    \/ backtrace_frame(c, oks)
    \/ backtrace_return(c)
    \/ HaltLock(c)
    \/ HaltWrite(c)
    \/ halt_mask(c)
    \/ halt_wfi(c)

\* The machine: every core runs, the cores are at EL2, an exception is a
\* synchronous one (kind 1), a panic of the benchmark has a location and a
\* message, and a stack walk finds the deepest chain.
\* MPIDR_EL1 of core c: the U bit (bit 30) over affinity level 0
Mpidr(c) == 1073741824 + c

Init == Reset /\ currentel = 8 /\ mpidr = [c \in Cores |-> Mpidr(c)]

Next == \E c \in Cores : Step(c, {1}, {<<TRUE, TRUE>>}, {MaxFrames}, BOOLEAN)

Spec == Init /\ [][Next]_vars

\* One core on its own (the other has not left reset), at any exception
\* level, with every kind of exception, every shape of PanicInfo and every
\* depth of stack. The core that runs is any of the CPU_COUNT cores of the
\* machine.
CoreInit ==
    /\ Reset
    /\ currentel \in CurrentELs
    /\ \E a \in 0 .. CPU_COUNT - 1 :
         mpidr = [c \in Cores |-> IF c = 0 THEN Mpidr(a) ELSE Mpidr(c)]

CoreNext == Step(0, Kinds, BOOLEAN \X BOOLEAN, 0 .. MaxFrames, BOOLEAN)

CoreSpec == CoreInit /\ [][CoreNext]_vars

\* cpu_id as a function of the register: one core at EL2 whose MPIDR_EL1
\* reads as any of a sample of raw values, with bits above the low eight set
\* and low bytes of one, two and three decimal digits.
RawAffinities ==
    {0, 3, 4, 165, 255, 256, 259, 511, 65536 + 200,
     1073741824 + 1, 1073741824 + 16777216 + 512 + 77}

AffinityInit ==
    /\ Reset
    /\ currentel = 8
    /\ \E raw \in RawAffinities :
         mpidr = [c \in Cores |-> IF c = 0 THEN raw ELSE Mpidr(c)]

AffinitySpec == AffinityInit /\ [][CoreNext]_vars

\* The machine under the assumptions of progress: every write to the UART
\* succeeds, and a core that can execute an instruction of the program
\* eventually does (each core runs on its own processor). Exceptions and
\* panics of the benchmark may happen; nothing makes them happen.
LiveNext == \E c \in Cores : Step(c, {1}, {<<TRUE, TRUE>>}, {MaxFrames}, {TRUE})

Executes(c) == Step(c, {}, {}, {MaxFrames}, {TRUE})

LiveSpec == Init /\ [][LiveNext]_vars /\ \A c \in Cores : WF_vars(Executes(c))

(* ------------------------- reading the state -------------------------- *)

\* what core c has written, in order
CoreLog(c) == SelectSeq(out, LAMBDA ch : ch.core = c)

\* the last n chunks of a sequence (all of it if shorter)
Tail_n(s, n) == IF Len(s) <= n THEN s ELSE SubSeq(s, Len(s) - n + 1, Len(s))

Sites(s) == [i \in 1 .. Len(s) |-> s[i].site]

\* core c is waiting for the UART
Waiting(c) == pc[c] \in {"start_lock", "bench", "halt_lock", "panic_lock", "backtrace_lock"}

\* the positions of panic and backtrace at which a write is about to be made
WritePcs == {"panic_prefix", "panic_message", "panic_newline",
             "backtrace_header", "backtrace_loop"}

HaltPcs == {"halt_lock", "halt_write", "halt_mask", "halted"}

PanicPcs == {"panic_lock", "panic_prefix", "panic_message", "panic_newline",
             "panic_drop", "backtrace_lock", "backtrace_header", "backtrace_loop"}

\* core c is in halt(), called by panic
HaltAfterPanic(c) == pc[c] \in HaltPcs /\ info[c] # None

(* ------------------------------- C1 ------------------------------------ *)

\* a chunk that continues a diagnostic write directly follows the chunk of
\* the same core it continues
Contiguous ==
    \A i \in 1 .. Len(out) :
        out[i].site \in {"message", "newline", "frame"} =>
            /\ i > 1
            /\ out[i - 1].core = out[i].core
            /\ out[i - 1].site \in
                 (CASE out[i].site = "message" -> {"prefix"}
                    [] out[i].site = "newline" -> {"message"}
                    [] out[i].site = "frame"   -> {"header", "frame"})

\* C1: at most one core holds the lock of the sink; panic and backtrace
\* write only while their core holds it; and in the stream every diagnostic
\* write (a panic message line, a backtrace) is contiguous: none of its
\* chunks is separated from the one before by a chunk of another core.
C1_Serialized ==
    /\ Cardinality({c \in Cores : holds[c]}) <= 1
    /\ (\E c \in Cores : holds[c]) => locked
    /\ \A c \in Cores : pc[c] \in WritePcs => holds[c]
    /\ Contiguous

\* a complete panic message line of one core lies between chunks of the other
C1_Witness ==
    \E i \in 2 .. Len(out) - 3 :
        /\ Sites(SubSeq(out, i, i + 2)) = <<"prefix", "message", "newline">>
        /\ out[i - 1].core # out[i].core
        /\ out[i + 3].core # out[i].core

(* ------------------------------- C2 ------------------------------------ *)

\* the panic core c is in was raised by .unwrap() on a failed write
IsUnwrapPanic(c) == info[c] # None /\ info[c][1].msg = Some(UnwrapMessage)

\* C2: when a write through the guard fails in panic or backtrace, the guard
\* is released before the nested panic runs: a core never stands at the
\* entry of the panic handler for a failed write while it holds the lock.
C2_ReleasedBeforeNestedPanic ==
    \A c \in Cores : (IsUnwrapPanic(c) /\ pc[c] = "panic_lock") => ~holds[c]

(* ------------------------------- C3 ------------------------------------ *)

\* the panic core c is in was raised by fault
IsFaultPanic(c) ==
    /\ info[c] # None
    /\ info[c][1].loc # None
    /\ info[c][1].loc[1].line \in {136, 139}

\* C3: fault may be entered wherever the core was executing, also while the
\* core holds the lock for a write, without the core deadlocking against
\* itself: a core never waits in panic, on behalf of fault, for a lock that
\* it holds itself.
C3_NoSelfDeadlock ==
    \A c \in Cores : (IsFaultPanic(c) /\ pc[c] = "panic_lock") => ~holds[c]

(* ------------------------------- C4 ------------------------------------ *)

\* the frame lines core c wrote after its last header
RECURSIVE FramesAtEnd(_)
FramesAtEnd(log) ==
    IF log = <<>> \/ log[Len(log)].site # "frame" THEN <<>>
    ELSE Append(FramesAtEnd(SubSeq(log, 1, Len(log) - 1)), log[Len(log)])

\* log without the line halt wrote, if that is its last
BeforeHalted(log) ==
    IF log # <<>> /\ log[Len(log)].site = "halted"
    THEN SubSeq(log, 1, Len(log) - 1) ELSE log

\* the stack walk of core c is complete in its log: a header and the frame
\* lines, directly after the message line
WalkComplete(c) ==
    LET log == BeforeHalted(CoreLog(c))
        n == Len(FramesAtEnd(log))
    IN  /\ Len(log) >= n + 4
        /\ Sites(SubSeq(log, Len(log) - n - 3, Len(log) - n)) =
              <<"prefix", "message", "newline", "header">>

\* C4: a panic goes through its steps in order.  The lock is held from the
\* acquisition to the release; what has been written at each step is, in
\* order, the prefix, the message, the line terminator; the lock is free of
\* this core when backtrace is called; and halt is entered only after the
\* stack walk has written its header and frame lines and met the null frame
\* pointer.
C4_PanicOrder ==
    \A c \in Cores :
        /\ pc[c] \in {"panic_prefix", "panic_message", "panic_newline", "panic_drop"}
              => holds[c]
        /\ pc[c] = "panic_message" =>
              /\ Sites(Tail_n(out, 1)) = <<"prefix">>
              /\ out[Len(out)].core = c
        /\ pc[c] = "panic_newline" =>
              /\ Sites(Tail_n(out, 2)) = <<"prefix", "message">>
              /\ \A i \in Len(out) - 1 .. Len(out) : out[i].core = c
        /\ pc[c] = "panic_drop" =>
              /\ Sites(Tail_n(out, 3)) = <<"prefix", "message", "newline">>
              /\ \A i \in Len(out) - 2 .. Len(out) : out[i].core = c
        /\ pc[c] = "backtrace_lock" =>
              /\ ~holds[c]
              /\ Sites(Tail_n(CoreLog(c), 3)) = <<"prefix", "message", "newline">>
        /\ pc[c] = "backtrace_header" =>
              Sites(Tail_n(CoreLog(c), 3)) = <<"prefix", "message", "newline">>
        /\ HaltAfterPanic(c) =>
              /\ fp[c] = 0
              /\ WalkComplete(c)
              /\ pc[c] = "halt_lock" => ~holds[c]

\* a core has gone through a whole panic and stands at the entry of halt
C4_Witness ==
    \E c \in Cores :
        /\ pc[c] = "halt_lock"
        /\ info[c] # None
        /\ Len(FramesAtEnd(CoreLog(c))) = MaxFrames

(* ------------------------------- C5 ------------------------------------ *)

\* C5: a halted core stays halted: it is parked with its interrupts masked
\* and without the lock, and no step moves it, gives it the lock or writes
\* for it.
C5_HaltedTerminal ==
    /\ [](\A c \in Cores : pc[c] = "halted" => (daif[c] /\ ~Waiting(c)))
    /\ [][\A c \in Cores :
            pc[c] = "halted" =>
                /\ pc'[c] = "halted"
                /\ daif'[c]
                /\ holds'[c] = holds[c]
                /\ info'[c] = info[c]
                /\ CoreLog(c)' = CoreLog(c)]_vars

\* a core is halted after a panic while the other is still on its way
C5_Witness ==
    \E c, d \in Cores :
        /\ pc[c] = "halted"
        /\ info[c] # None
        /\ pc[d] \notin HaltPcs

(* ------------------------------- C6 ------------------------------------ *)

\* C6: fault reads the four fault registers of the exception level it finds,
\* no other, when that level is 1 or 2, and its report then gives the core,
\* the level, the kind and the four values read; at any other level it
\* reads no fault register and its report says that the level is
\* unsupported.
C6_FaultRegisters ==
    \A c \in Cores :
        IsFaultPanic(c) =>
            LET level == currentel \div 4
                msg == info[c][1].msg[1]
                Report(kind, syndrome, addr, ret, state) ==
                    <<"Core #">> \o Display(cpu_id(c))
                        \o <<" triggered an exception at level ">> \o Display(level)
                        \o <<": Kind: 0x">> \o LowerHex(kind)
                        \o <<", Syndrome: 0x">> \o LowerHex(SysReg(syndrome))
                        \o <<", Address: 0x">> \o LowerHex(SysReg(addr))
                        \o <<", Location: 0x">> \o LowerHex(SysReg(ret))
                        \o <<", State: 0x">> \o LowerHex(SysReg(state))
            IN  /\ level = 2 =>
                     /\ mrs[c] = {"esr_el2", "far_el2", "elr_el2", "spsr_el2"}
                     /\ \E kind \in Kinds :
                          msg = Report(kind, "esr_el2", "far_el2", "elr_el2", "spsr_el2")
                /\ level = 1 =>
                     /\ mrs[c] = {"esr_el1", "far_el1", "elr_el1", "spsr_el1"}
                     /\ \E kind \in Kinds :
                          msg = Report(kind, "esr_el1", "far_el1", "elr_el1", "spsr_el1")
                /\ level \notin {1, 2} =>
                     /\ mrs[c] = {}
                     /\ msg = <<"Exception caught at unsupported level ">> \o Display(level)

\* fault has run at level 1 and read the four level-1 registers
C6_Witness ==
    /\ currentel = 4
    /\ IsFaultPanic(0)
    /\ Cardinality(mrs[0]) = 4
    /\ pc[0] = "panic_lock"

(* ------------------------------- C7 ------------------------------------ *)

\* C7: every error is fatal to its core.  Once fault (or any panic) has been
\* entered on a core, the core is in the panic handler, in the stack walk or
\* in halt, at every level and for every kind; it is never back in start or
\* in the benchmark, and it writes no line of theirs any more.
C7_FatalIsFinal ==
    \A c \in Cores :
        /\ info[c] # None => pc[c] \in PanicPcs \cup HaltPcs
        /\ LET log == CoreLog(c)
           IN  \A i, j \in 1 .. Len(log) :
                   (i < j /\ log[i].site = "prefix") => log[j].site \notin {"booted", "bench"}

\* at an unsupported level, fault has led through the panic to halt
C7_Witness ==
    /\ currentel = 0
    /\ IsFaultPanic(0)
    /\ pc[0] = "halted"

(* ------------------------------- C8 ------------------------------------ *)

\* the length of the frame-pointer chain that starts at address a
RECURSIVE ChainLen(_)
ChainLen(a) == IF a = 0 THEN 0 ELSE 1 + ChainLen(mem[a])

\* frame line j (counted from 0) is numbered j
Numbered(lines) ==
    \A j \in 1 .. Len(lines) :
        SubSeq(lines[j].text, 1, Len(Display(j - 1)) + 2)
            = <<"#">> \o Display(j - 1) \o <<": 0x">>

\* C8: on a chain of K frame records ended by a null frame pointer the stack
\* walk writes the header and then K frame lines numbered 0 .. K-1.  While
\* it runs, the lines written and the records still ahead add up to K; it
\* ends only at the null frame pointer; for K = 0 it loads nothing.
C8_WalkLength ==
    \A c \in Cores :
        LET start == IF loads[c] = <<>> THEN fp[c] ELSE loads[c][1]
            K == ChainLen(start)
            log == BeforeHalted(CoreLog(c))
            lines == FramesAtEnd(log)
        IN  /\ pc[c] = "backtrace_loop" =>
                 /\ Len(lines) = frame[c]
                 /\ frame[c] + ChainLen(fp[c]) = K
                 /\ Len(loads[c]) = 2 * frame[c]
                 /\ Numbered(lines)
                 /\ log[Len(log) - Len(lines)].text = <<"Backtrace:", "\n">>
            /\ HaltAfterPanic(c) =>
                 /\ fp[c] = 0
                 /\ Len(lines) = K
                 /\ Numbered(lines)
                 /\ log[Len(log) - Len(lines)].text = <<"Backtrace:", "\n">>
                 /\ K = 0 => loads[c] = <<>>

\* a walk over the longest chain is over
C8_Witness ==
    /\ HaltAfterPanic(0)
    /\ frame[0] = MaxFrames
    /\ Len(FramesAtEnd(BeforeHalted(CoreLog(0)))) = MaxFrames
    /\ MaxFrames >= 2

(* ------------------------------- C9 ------------------------------------ *)

\* text is a frame line with index n: "#<n>: 0x<hex>" and a line terminator
IsFrameLine(text, n) ==
    LET head == <<"#">> \o Display(n) \o <<": 0x">>
    IN  /\ Len(text) >= Len(head) + 2
        /\ SubSeq(text, 1, Len(head)) = head
        /\ text[Len(text)] = "\n"
        /\ \A k \in Len(head) + 1 .. Len(text) - 1 :
               \E d \in 1 .. 16 : text[k] = UpperHexDigits[d]

\* C9: in what a core writes, a panic report is one message line (prefix,
\* message, line terminator), then the header "Backtrace:", then frame lines
\* numbered from 0 upwards by one; each of these chunks directly follows, in
\* the core's output, the one the format puts before it, and no line of
\* start or of the benchmark follows inside or after a report.
C9_ReportFormat ==
    \A c \in Cores :
        LET log == CoreLog(c)
            \* the number of frame lines directly before position i
            FramesBefore(i) == Len(FramesAtEnd(SubSeq(log, 1, i - 1)))
        IN  \A i \in 1 .. Len(log) :
                /\ log[i].site = "message" => (i > 1 /\ log[i - 1].site = "prefix")
                /\ log[i].site = "newline" =>
                      (i > 1 /\ log[i - 1].site = "message" /\ log[i].text = <<"\n">>)
                /\ log[i].site = "header" =>
                      /\ i > 1 /\ log[i - 1].site = "newline"
                      /\ log[i].text = <<"Backtrace:", "\n">>
                /\ log[i].site = "frame" =>
                      /\ i > 1 /\ log[i - 1].site \in {"header", "frame"}
                      /\ i - FramesBefore(i) - 1 >= 1
                      /\ log[i - FramesBefore(i) - 1].site = "header"
                      /\ IsFrameLine(log[i].text, FramesBefore(i))
                /\ log[i].site \in {"booted", "bench"} =>
                      \A j \in 1 .. i - 1 : log[j].site \in {"booted", "bench"}

\* a core has written a whole report with two frame lines, and the other
\* core has written too
C9_Witness ==
    \E c \in Cores :
        /\ Sites(Tail_n(CoreLog(c), 6)) =
              <<"prefix", "message", "newline", "header", "frame", "frame">>
        /\ Len(CoreLog(c)) < Len(out)

(* ------------------------------- C10 ----------------------------------- *)

\* C10: the message line of a panic is the prefix "Core #<id> panicked at
\* <file>:<line>: " if the PanicInfo has a location and "Core #<id> panic: "
\* if not, then the message if the PanicInfo has one and "Unknown reason" if
\* not, then one line terminator, <id> being the id of the panicking core.
C10_MessageLine ==
    \A c \in Cores :
        pc[c] \in {"panic_message", "panic_newline", "panic_drop"} =>
            LET loc == info[c][1].loc
                msg == info[c][1].msg
                prefix == IF loc # None
                          THEN <<"Core #">> \o Display(cpu_id(c))
                                 \o <<" panicked at ", loc[1].file, ":">>
                                 \o Display(loc[1].line) \o <<": ">>
                          ELSE <<"Core #">> \o Display(cpu_id(c)) \o <<" panic: ">>
                reason == IF msg # None THEN msg[1] ELSE <<"Unknown reason">>
                n == Len(out)
            IN  /\ pc[c] = "panic_message" => out[n].text = prefix
                /\ pc[c] = "panic_newline" =>
                     (out[n - 1].text = prefix /\ out[n].text = reason)
                /\ pc[c] = "panic_drop" =>
                     /\ out[n - 2].text = prefix
                     /\ out[n - 1].text = reason
                     /\ out[n].text = <<"\n">>
                     /\ \A k \in 1 .. Len(prefix \o reason) : (prefix \o reason)[k] # "\n"

\* the line of a panic without location and without message is complete
C10_Witness ==
    /\ pc[0] = "panic_drop"
    /\ info[0][1].loc = None
    /\ info[0][1].msg = None

(* ------------------------------- C11 ---------------------------------- *)

\* the chunks of the stream that name the core that wrote them
IdLines(id) ==
    {BootedLine(id) \o <<"\n">>, BenchLine(id) \o <<"\n">>, HaltedLine(id) \o <<"\n">>}

StartsWith(t, p) == Len(t) >= Len(p) /\ SubSeq(t, 1, Len(p)) = p

\* C11: whatever the affinity register of a core reads, cpu_id is its low
\* eight bits, the register value modulo 256: a number of 0 .. 255 for every
\* raw value, and the number each line naming the core shows. Reading the id
\* changes nothing: the register keeps its value through every step.
C11_LowEightBits ==
    /\ [](\A c \in Cores :
            /\ cpu_id(c) = mpidr[c] % 256
            /\ cpu_id(c) \in 0 .. 255
            /\ \A i \in 1 .. Len(out) :
                 (out[i].core = c /\ out[i].site \in {"booted", "bench", "halted"})
                    => out[i].text \in IdLines(mpidr[c] % 256)
            /\ \A i \in 1 .. Len(out) :
                 (out[i].core = c /\ out[i].site = "prefix")
                    => \/ StartsWith(out[i].text, PanicPrefix(mpidr[c] % 256, None))
                       \/ StartsWith(out[i].text,
                              <<"Core #">> \o Display(mpidr[c] % 256) \o <<" panicked at ">>))
    /\ [][mpidr' = mpidr]_vars

\* a register with bits set above the low eight, whose low byte has more
\* than one digit, has been read for a line that is in the stream
C11_Witness ==
    /\ mpidr[0] > 255
    /\ mpidr[0] % 256 > 15
    /\ \E i \in 1 .. Len(out) : out[i].core = 0 /\ out[i].site = "halted"

(* ------------------------------- C12 ---------------------------------- *)

\* core c stands at an acquisition of the diagnostic sequence that follows an
\* earlier one: the one of backtrace, the one of halt called by panic, or the
\* one of a panic raised by a write of the sequence itself
LaterAcquisition(c) ==
    \/ pc[c] = "backtrace_lock"
    \/ pc[c] = "halt_lock" /\ info[c] # None
    \/ pc[c] = "panic_lock" /\ IsUnwrapPanic(c)

\* C12: in the diagnostic sequence of a core (panic message, backtrace,
\* halt) every acquisition of the lock follows the release of the one before:
\* the core never stands at an acquisition while it holds the lock itself,
\* which with a lock that is not reentrant would block it for ever.
C12_AcquiresAfterRelease ==
    \A c \in Cores : LaterAcquisition(c) => ~holds[c]

(* ------------------------------- C13 ---------------------------------- *)

\* a step by which core d takes the lock
TakeLock(d) ==
    \/ StartLock(d)
    \/ BenchLock(d)
    \/ HaltLock(d)
    \/ panic_lock(d)
    \/ backtrace_lock(d)

\* C13: between the release in panic and the acquisition in backtrace the
\* lock is free of the core: its message line is complete, it does not hold
\* the lock, and another core that waits for the lock while nobody holds it
\* can take it and write before the core's header.
C13_WindowOpen ==
    \A c \in Cores :
        pc[c] = "backtrace_lock" =>
            /\ ~holds[c]
            /\ CoreLog(c) # <<>>
            /\ CoreLog(c)[Len(CoreLog(c))].site = "newline"
            /\ \A d \in Cores \ {c} :
                 (Waiting(d) /\ ~holds[d] /\ ~locked) => ENABLED TakeLock(d)

\* the stream holds a line of another core between the end of the message
\* line of a core and the header of its backtrace
C13_Witness ==
    \E i \in 1 .. Len(out) : \E j \in 1 .. Len(out) :
        /\ i + 1 < j
        /\ out[i].site = "newline"
        /\ out[j].site = "header"
        /\ out[j].core = out[i].core
        /\ \A k \in i + 1 .. j - 1 : out[k].core # out[i].core

(* ------------------------------- C14 ---------------------------------- *)

\* C14 as stated: the stack walk takes the lock anew for the header and for
\* each frame line and releases it between lines, so a core that stands
\* between two lines of its backtrace does not hold the lock.
C14_ReleasedBetweenLines ==
    \A c \in Cores : pc[c] = "backtrace_loop" => ~holds[c]

\* C14, amended: the stack walk takes the lock once, before the header, and
\* holds it until the walk has met the null frame pointer: between two lines
\* of its backtrace the core holds the lock, no other core can take it, and
\* in the stream every frame line directly follows the header or the frame
\* line of the same core.
C14_HeldThroughWalk ==
    /\ \A c \in Cores :
         pc[c] \in {"backtrace_header", "backtrace_loop"} =>
            /\ holds[c]
            /\ locked
            /\ \A d \in Cores \ {c} : ~holds[d] /\ ~ENABLED TakeLock(d)
    /\ \A i \in 1 .. Len(out) :
         out[i].site = "frame" =>
            /\ i > 1
            /\ out[i - 1].core = out[i].core
            /\ out[i - 1].site \in {"header", "frame"}

\* a core stands between two frame lines of its backtrace while the other
\* core waits for the lock
C14_Witness ==
    \E c \in Cores : \E d \in Cores \ {c} :
        /\ pc[c] = "backtrace_loop"
        /\ frame[c] >= 1
        /\ fp[c] # 0
        /\ Waiting(d)
        /\ ~holds[d]

(* ------------------------------- C15 ---------------------------------- *)

\* the lifecycle state of core c: Booting while start writes its line,
\* Running in bench and in halt called by start, Faulted when fault has
\* raised its report, Panicking in panic, backtrace and halt called by
\* panic, Halted when parked
Phase(c) ==
    CASE pc[c] = "halted" -> "Halted"
      [] pc[c] \in {"start_lock", "start_write"} -> "Booting"
      [] pc[c] \in {"bench", "bench_write"} -> "Running"
      [] pc[c] \in {"halt_lock", "halt_write", "halt_mask"} ->
            IF info[c] = None THEN "Running" ELSE "Panicking"
      [] pc[c] = "panic_lock" /\ IsFaultPanic(c) -> "Faulted"
      [] OTHER -> "Panicking"

\* the transitions of the state machine as specified
Specified ==
    {<<"Booting", "Running">>, <<"Running", "Halted">>, <<"Running", "Faulted">>,
     <<"Faulted", "Panicking">>, <<"Panicking", "Halted">>}

\* a step moves every core along a transition of T or leaves its state
Follows(T) ==
    \A c \in Cores : Phase(c)' = Phase(c) \/ <<Phase(c), Phase(c)'>> \in T

\* a step changes the lifecycle state of at most one core
OneCoreMoves ==
    \A c \in Cores : \A d \in Cores \ {c} :
        Phase(c)' = Phase(c) \/ Phase(d)' = Phase(d)

\* C15 as stated: every core follows Booting, Running, Halted or Running,
\* Faulted, Panicking, Halted and makes no other transition, and no step of
\* a core changes the lifecycle state of another.
C15_SpecifiedLifecycle == [][Follows(Specified) /\ OneCoreMoves]_vars

\* C15, amended: besides the specified transitions a core becomes Faulted
\* also from Booting and from Panicking (an exception is taken wherever the
\* core executes, until it is parked), and a panic of the benchmark takes it
\* from Running to Panicking without a fault. No transition leads back to
\* Booting or Running, none leaves Halted, and no step of a core changes the
\* lifecycle state of another.
C15_Lifecycle ==
    [][/\ Follows(Specified \cup {<<"Booting", "Faulted">>, <<"Panicking", "Faulted">>,
                                  <<"Running", "Panicking">>})
       /\ OneCoreMoves]_vars

\* a core that took an exception before its boot line was written has gone
\* through its report and is parked
C15_Witness ==
    \E c \in Cores :
        /\ pc[c] = "halted"
        /\ IsFaultPanic(c)
        /\ \A i \in 1 .. Len(out) : out[i].core = c => out[i].site # "booted"

(* ------------------------------- C16 ---------------------------------- *)

C17_EventuallyHalted == \A c \in Cores : <>(pc[c] = "halted")

(* ------------------------------- C18 ---------------------------------- *)

\* the last chunk core c wrote is the line of halt
EndsHalted(c) ==
    LET log == CoreLog(c)
    IN  /\ log # <<>>
        /\ log[Len(log)].site = "halted"
        /\ log[Len(log)].text = HaltedLine(cpu_id(c)) \o <<"\n">>

\* C18: halt writes its line first and masks the interrupts and parks only
\* afterwards. The interrupts of a core are masked only when it is parked;
\* when the line is written and when the core is parked, the line is the
\* last the core has written, after the frame lines on the path through
\* panic; and the line is written under the lock, so a core passes the entry
\* of halt only when no other core holds the lock.
C18_HaltedLineLast ==
    \A c \in Cores :
        /\ daif[c] => pc[c] = "halted"
        /\ pc[c] \in {"halt_mask", "halted"} => EndsHalted(c)
        /\ (pc[c] = "halted" /\ info[c] # None) =>
              LET log == CoreLog(c)
              IN  /\ Len(log) >= 2
                  /\ log[Len(log) - 1].site \in {"header", "frame"}
        /\ pc[c] = "halt_write" =>
              /\ holds[c]
              /\ \A d \in Cores \ {c} : ~holds[d]
        /\ (pc[c] = "halt_lock" /\ \E d \in Cores \ {c} : holds[d]) =>
              ~ENABLED HaltLock(c)

\* both cores are parked, one after start and the benchmark, one after a
\* panic and its backtrace
C18_Witness ==
    \E c \in Cores : \E d \in Cores \ {c} :
        /\ pc[c] = "halted" /\ info[c] = None
        /\ pc[d] = "halted" /\ info[d] # None
        /\ Len(FramesAtEnd(BeforeHalted(CoreLog(d)))) >= 1

(* ------------------------------- C19 ---------------------------------- *)

\* the frame record visited at turn k of the loop (counted from 1), from the
\* frame pointer a the walk started with
RECURSIVE Visited(_, _)
Visited(a, k) == IF k = 1 THEN a ELSE Visited(mem[a], k - 1)

\* C19: frame line #0 shows the link register found at entry, frame line #i
\* for i >= 1 the return address loaded at turn i-1; every turn reads the two
\* words at its frame pointer, which become the frame pointer and the return
\* address of the next turn, and nothing is written to memory; the return
\* address loaded from the last record, whose saved frame pointer is null,
\* ends the walk in the register and is in no line.
C19_ShownAddresses ==
    \A c \in Cores :
        LET log == BeforeHalted(CoreLog(c))
            lines == FramesAtEnd(log)
            n == frame[c]
            start == IF loads[c] = <<>> THEN fp[c] ELSE loads[c][1]
            Shown(j) == IF j = 1 THEN LinkReg(c) ELSE mem[Visited(start, j - 1) + 8]
        IN  /\ mem = InitMem
            /\ (pc[c] = "backtrace_loop" \/ HaltAfterPanic(c)) =>
                 /\ Len(lines) = n
                 /\ \A j \in 1 .. n : lines[j].text = FrameLine(j - 1, Shown(j))
                 /\ Len(loads[c]) = 2 * n
                 /\ \A k \in 1 .. n :
                      /\ loads[c][2 * k - 1] = Visited(start, k)
                      /\ loads[c][2 * k] = Visited(start, k) + 8
                 /\ n = 0 => lr[c] = LinkReg(c)
                 /\ n >= 1 =>
                      /\ fp[c] = mem[Visited(start, n)]
                      /\ lr[c] = mem[Visited(start, n) + 8]
            /\ (HaltAfterPanic(c) /\ n >= 1) =>
                 /\ mem[Visited(start, n)] = 0
                 /\ \A j \in 1 .. n : lines[j].text # FrameLine(j - 1, lr[c])
                 /\ \A j \in 1 .. n : Shown(j) # lr[c]

\* a walk over the longest chain is over: the lines are in the stream and
\* the register holds the return address of the last record
C19_Witness ==
    /\ HaltAfterPanic(0)
    /\ frame[0] = MaxFrames
    /\ MaxFrames >= 2
    /\ Len(FramesAtEnd(BeforeHalted(CoreLog(0)))) = MaxFrames
    /\ lr[0] = ReturnAddr(0, 1)
    /\ loads[0][1] = FrameAddr(0, MaxFrames)
    /\ loads[0][2 * MaxFrames] = FrameAddr(0, 1) + 8

====
